---- MODULE Spec2Model ----
(***************************************************************************)
(* res_loader: the directory watcher (file_watcher.py), the resource       *)
(* registry (db.py), the pipeline executor and the two scheduler loops     *)
(* (__main__.py), with the file utilities of utils/file.py.                *)
(*                                                                         *)
(* A file system state is a function from paths to "absent", "dir" or the  *)
(* bytes of a regular file.  The registry is the sequence of rows of the   *)
(* table `resources`; a row's id is its index, and rows are created in id  *)
(* order, so created_at grows with the id.  SQL NULL / Python None is the  *)
(* value None.                                                             *)
(***************************************************************************)
EXTENDS Naturals, Sequences, FiniteSets, TLC

VARIABLES
    fs,        \* path -> "absent" | "dir" | bytes of the regular file
    fsLeft,    \* file system mutations the environment may still make
    events,    \* watchdog events queued for the observer thread
    phase,     \* "scan": FileWatcher.__init__ is scanning; "live": the observer
               \* runs; "stopped": the observer was stopped; "failed": it never
               \* started
    scanTodo,  \* files os.walk still has to visit
    rows,      \* the registry
    hBatch,    \* heavy loop: rows fetched this cycle and not yet processed
    hRun,      \* heavy loop: the row being processed (at most one task)
    whisper,   \* TRUE once the speech model is loaded (ResourcePreProcessor._audio_processor)
    lBatch,    \* light loop: rows submitted to the pool and not yet started
    lRun,      \* light loop: the tasks running on pool workers
    hLoop,     \* heavy loop thread: "off", "wait", "query", "run" or "done"
    lLoop,     \* light loop thread: "off", "wait", "query", "run" or "done"
    stop,      \* stop_event is set
    closed,    \* Database.close() has been called
    main,      \* where the main thread is in run()
    probe      \* is_write_completed called on its own: <<>>, or the one record of
               \* the inputs and the result of the last call

fsVars    == <<fs, fsLeft>>
watchVars == <<events, phase, scanTodo>>
heavyVars == <<hBatch, hRun, whisper, hLoop>>
lightVars == <<lBatch, lRun, lLoop>>
mainVars  == <<stop, closed, main, probe>>
vars      == <<fs, fsLeft, events, phase, scanTodo, rows,
               hBatch, hRun, whisper, lBatch, lRun, hLoop, lLoop,
               stop, closed, main, probe>>

(***************************************************************************)
(* Bounds of the model.                                                    *)
(***************************************************************************)
MaxRows   == 2   \* rows the registry may hold
MaxFsOps  == 2   \* file system mutations after start-up, watcher alone
MainFsOps == 1   \* file system mutations after start-up, whole system
MaxEvents == 2   \* watchdog events waiting for the observer thread
MaxSize   == 2   \* largest file size of a write-completion check on its own
MaxPending == 11  \* Pending media rows the heavy loop may find at its start

(***************************************************************************)
(* Program constants.                                                      *)
(***************************************************************************)
BatchLimit == 10    \* .limit(10) of both scheduler queries
ListLimit  == 100   \* list_resources(limit=100), used by on_deleted
MaxWorkers == 4     \* process_other_resources(max_workers=4)

None == "None"

\* The file names of the model, all directly in the watch root "w".
Paths ==
    {"w/a.txt", "w/b.txt", "w/c.mp4", "w/d.mp3", "w/e.pdf", "w/f.md",
     "w/g.docx", "w/h.pptx", "w/i.xlsx", "w/j.csv", "w/k.xyz"}

\* The parts of a path: Path(p).name, Path(p).stem, the text after the last
\* "." (FileUtils.get_file_type), and the audio artifact named after the stem.
PathParts ==
    [p \in Paths |->
        CASE p = "w/a.txt"  -> [name |-> "a.txt",  stem |-> "a", ext |-> "txt", audio |-> "tmp_audio/a.mp3"]
          [] p = "w/b.txt"  -> [name |-> "b.txt",  stem |-> "b", ext |-> "txt", audio |-> "tmp_audio/b.mp3"]
          [] p = "w/c.mp4"  -> [name |-> "c.mp4",  stem |-> "c", ext |-> "mp4", audio |-> "tmp_audio/c.mp3"]
          [] p = "w/d.mp3"  -> [name |-> "d.mp3",  stem |-> "d", ext |-> "mp3", audio |-> "tmp_audio/d.mp3"]
          [] p = "w/e.pdf"  -> [name |-> "e.pdf",  stem |-> "e", ext |-> "pdf", audio |-> "tmp_audio/e.mp3"]
          [] p = "w/f.md"   -> [name |-> "f.md",   stem |-> "f", ext |-> "md", audio |-> "tmp_audio/f.mp3"]
          [] p = "w/g.docx" -> [name |-> "g.docx", stem |-> "g", ext |-> "docx", audio |-> "tmp_audio/g.mp3"]
          [] p = "w/h.pptx" -> [name |-> "h.pptx", stem |-> "h", ext |-> "pptx", audio |-> "tmp_audio/h.mp3"]
          [] p = "w/i.xlsx" -> [name |-> "i.xlsx", stem |-> "i", ext |-> "xlsx", audio |-> "tmp_audio/i.mp3"]
          [] p = "w/j.csv"  -> [name |-> "j.csv",  stem |-> "j", ext |-> "csv", audio |-> "tmp_audio/j.mp3"]
          [] OTHER          -> [name |-> "k.xyz",  stem |-> "k", ext |-> "xyz", audio |-> "tmp_audio/k.mp3"]]

\* File contents: a UTF-8 text and a byte string that is no valid UTF-8.
Contents  == {"hello", "\\xff"}
Decodable == {"hello"}

Absent == "absent"
Dir    == "dir"

IsFile(f, p) == f[p] \in Contents
Exists(f, p) == f[p] # Absent

\* os.path.getsize
Size(c) == IF c = "hello" THEN 5 ELSE 1

\* Path(file_path).name
BaseName(p) == PathParts[p].name

\* do_process_video: os.path.join(audio_dir, Path(resource.path).stem + ".mp3")
AudioArtifact(p) == PathParts[p].audio

\* FileUtils.get_file_type: file_path.split(".")[-1]
get_file_type(p) == PathParts[p].ext

ResourceTypes ==
    {"video", "audio", "image", "text", "pdf", "markdown",
     "word", "ppt", "excel", "csv", "unknown"}

PENDING       == "pending"
PRE_PROCESSED == "pre_processed"
FAILED        == "failed"
DELETED       == "deleted"
COMPLETED     == "completed"
ResourceStatuses == {PENDING, PRE_PROCESSED, FAILED, DELETED, COMPLETED}

\* FileWatcher._get_resource_type
get_resource_type(ext) ==
    CASE ext \in {"mp4", "avi", "mkv"} -> "video"
      [] ext \in {"mp3", "wav"}        -> "audio"
      [] ext \in {"txt", "log"}        -> "text"
      [] ext = "pdf"                   -> "pdf"
      [] ext = "md"                    -> "markdown"
      [] ext \in {"doc", "docx"}       -> "word"
      [] ext \in {"ppt", "pptx"}       -> "ppt"
      [] ext \in {"xls", "xlsx"}       -> "excel"
      [] ext = "csv"                   -> "csv"
      [] OTHER                         -> "unknown"

\* hashlib.md5(...).hexdigest(), first hex digits; distinct bytes, distinct digests
Md5Hex(c) ==
    IF c = "hello" THEN "5d41402a" ELSE "00594fd4"

\* FileUtils.get_file_md5: None when the path is missing or is no regular file
get_file_md5(f, p) == IF IsFile(f, p) THEN Md5Hex(f[p]) ELSE None

DeletedMessage     == "file deleted"        \* the message on_deleted stores
UnsupportedMessage == "unsupported type"    \* the message pre_process_resource stores

(***************************************************************************)
(* The registry: db.py                                                     *)
(***************************************************************************)
Columns ==
    {"name", "resource_type", "path", "md5", "content",
     "converted_path", "status", "error_message"}

\* Resource(...) as add_resource constructs it: content takes the column
\* default "", converted_path is the argument (None), error_message is NULL.
NewResource(name, resource_type, path, md5) ==
    [name |-> name, resource_type |-> resource_type, path |-> path, md5 |-> md5,
     content |-> "", converted_path |-> None, status |-> PENDING,
     error_message |-> None]

Ids(rs) == DOMAIN rs

\* query(Resource).filter_by(path=path) / filter_by(md5=md5): the matching ids.
\* .first() has no ORDER BY: any matching row may be the one returned.
ByPath(rs, path) == {i \in Ids(rs) : rs[i].path = path}
ByMd5(rs, md5)   == {i \in Ids(rs) : rs[i].md5 = md5}

\* Database.add_resource, the branch taken when row i holds the path
\* (converted_path is not passed by any caller, so it stays as it is).
add_resource_existing(rs, i, name, resource_type, md5) ==
    LET r  == rs[i]
        r1 == [r EXCEPT !.name = name, !.resource_type = resource_type]
        r2 == IF md5 # None /\ md5 # "" /\ r.md5 # md5
              THEN [r1 EXCEPT !.converted_path = "", !.content = None,
                              !.error_message = None, !.status = PENDING]
              ELSE r1
    IN  [rs EXCEPT ![i] = [r2 EXCEPT !.md5 = md5]]

\* Database.add_resource: the registries it may leave.
add_resource(rs, name, resource_type, path, md5) ==
    IF ByPath(rs, path) # {}
    THEN {add_resource_existing(rs, i, name, resource_type, md5) : i \in ByPath(rs, path)}
    ELSE {Append(rs, NewResource(name, resource_type, path, md5))}

\* An update that would leave a row alone once it is Deleted.
update_resource_tombstoned(rs, id, kw) ==
    IF id \in Ids(rs) /\ rs[id].status # DELETED
    THEN [rs EXCEPT ![id] =
            [c \in Columns |-> IF c \in DOMAIN kw THEN kw[c] ELSE rs[id][c]]]
    ELSE rs

\* Database.update_resource(resource_id, **kwargs): setattr for every keyword
\* that names an attribute; kw is a function from column names to values.
update_resource(rs, id, kw) ==
    IF id \in Ids(rs)
    THEN [rs EXCEPT ![id] =
            [c \in Columns |-> IF c \in DOMAIN kw THEN kw[c] ELSE rs[id][c]]]
    ELSE rs

\* Database.list_resources(limit, offset = 0), no filter: ids by created_at
\* descending, at most `limit` of them.
list_resources(rs, limit) ==
    {i \in Ids(rs) : Len(rs) - i < limit}

\* Resource.audio_path, on the attributes the executor holds in memory
audio_path(resource_type, path, converted_path) ==
    CASE resource_type = "audio" -> path
      [] resource_type = "video" -> converted_path
      [] OTHER                   -> None

(***************************************************************************)
(* Python's binding of a call's keyword arguments to a signature: the call *)
(* raises TypeError unless every keyword names a parameter and every       *)
(* required parameter is given.                                            *)
(***************************************************************************)
AddResourceParams   == {"name", "resource_type", "path", "md5", "converted_path"}
AddResourceRequired == {"name", "resource_type", "path", "md5"}

CallBinds(keywords) ==
    /\ keywords \subseteq AddResourceParams
    /\ AddResourceRequired \subseteq keywords

\* The keywords FileWatcher._process_file passes to add_resource
ProcessFileKeywords == {"name", "type", "path", "md5"}

(***************************************************************************)
(* utils/file.py: is_write_completed.  s0 is the initial size, s1 and s2   *)
(* the sizes sampled in the two rounds, r1 and r2 whether the file could   *)
(* be opened and read in that round.                                       *)
(***************************************************************************)
\* The check, had it not tried to open and read the file.
is_write_completed_unread(exists, s0, s1, s2, r1, r2) ==
    IF ~exists THEN FALSE
    ELSE IF s1 = s0 THEN TRUE
    ELSE s2 = s1

is_write_completed(exists, s0, s1, s2, r1, r2) ==
    IF ~exists THEN FALSE
    ELSE IF s1 = s0 /\ r1 THEN TRUE
    ELSE LET initial == IF s1 = s0 THEN s0 ELSE s1
         IN  s2 = initial /\ r2

\* The sizes the samples of path p can show: its size now, and, when a
\* program was still writing it while it was sampled, a smaller one.
SampleSizes(f, p) ==
    IF IsFile(f, p) THEN {Size(f[p]), Size(f[p]) - 1} ELSE {0}

(***************************************************************************)
(* file_watcher.py                                                         *)
(***************************************************************************)
\* FileWatcher._process_file: the registries it may leave.  A TypeError of
\* the add_resource call is caught by the method's except clause.
process_file(rs, f, p) ==
    LET file_md5 == get_file_md5(f, p) IN
    IF file_md5 = None THEN {rs}
    ELSE IF ByMd5(rs, file_md5) # {}
    THEN {update_resource(rs, i, [path |-> p, status |-> PENDING]) :
             i \in ByMd5(rs, file_md5)}
    ELSE IF CallBinds(ProcessFileKeywords)
    THEN add_resource(rs, BaseName(p), get_resource_type(get_file_type(p)), p, file_md5)
    ELSE {rs}

\* FileChangeHandler.on_deleted: the first row of list_resources() whose
\* path is the deleted one is marked.
on_deleted(rs, p) ==
    LET hits == {i \in list_resources(rs, ListLimit) : rs[i].path = p} IN
    IF hits = {} THEN rs
    ELSE LET first == CHOOSE i \in hits : \A j \in hits : j <= i
         IN  update_resource(rs, first,
                 [status |-> DELETED, error_message |-> DeletedMessage])

(***************************************************************************)
(* __main__.py: the pipeline executor, pre_process_resource.               *)
(*                                                                         *)
(* A scheduler query loads ORM objects: an entry of a batch carries the    *)
(* path and type loaded by the query.  session.commit() expires every      *)
(* object of the session, so after a commit the next attribute access      *)
(* reloads the row: the entry is then Expired.  A commit writes the        *)
(* attributes the executor assigned (all columns are written as assigned). *)
(***************************************************************************)
Expired == "expired"

Entry(rs, i) == [id |-> i, path |-> rs[i].path, resource_type |-> rs[i].resource_type]

Expire(batch) == {[id |-> e.id, path |-> Expired, resource_type |-> Expired] : e \in batch}

EntryPath(rs, e) == IF e.path = Expired THEN rs[e.id].path ELSE e.path
EntryType(rs, e) ==
    IF e.resource_type = Expired THEN rs[e.id].resource_type ELSE e.resource_type

TextTypes == {"text", "markdown"}
PassTypes == {"image", "pdf", "word", "ppt", "excel", "csv"}
Transcripts == {"", "hi"}   \* text.strip() of the segments; "" when there is none

Task(e, path, resource_type, stage) ==
    [id |-> e.id, path |-> path, resource_type |-> resource_type,
     stage |-> stage, converted_path |-> None]

\* An outcome of one executor step: the registry it leaves, the task that goes
\* on (none when the processing ended), whether it committed, whether it
\* raised, and the state of the speech model.
Outcome(rs, tasks, commit, raised, loaded) ==
    [rows |-> rs, tasks |-> tasks, commit |-> commit, raised |-> raised,
     whisper |-> loaded]

\* pre_process_resource up to the dispatch on the type: the checks of the
\* source path, and the whole processing of the types that read nothing.
pre_process_resource(rs, f, e, loaded) ==
    LET path == EntryPath(rs, e)
        type == EntryType(rs, e)
    IN  IF ~Exists(f, path)
        THEN Outcome(update_resource(rs, e.id, [status |-> FAILED]), {}, TRUE, FALSE, loaded)
        ELSE IF ~IsFile(f, path)
        THEN Outcome(update_resource(rs, e.id, [status |-> FAILED]), {}, TRUE, FALSE, loaded)
        ELSE IF type \in TextTypes
        THEN Outcome(rs, {Task(e, path, type, "read")}, FALSE, FALSE, loaded)
        ELSE IF type = "audio"
        THEN Outcome(rs, {Task(e, path, type, "speech")}, FALSE, FALSE, loaded)
        ELSE IF type = "video"
        THEN Outcome(rs, {Task(e, path, type, "transcode")}, FALSE, FALSE, loaded)
        ELSE IF type \in PassTypes
        THEN Outcome(update_resource(rs, e.id, [status |-> PRE_PROCESSED]),
                     {}, TRUE, FALSE, loaded)
        ELSE Outcome(update_resource(rs, e.id,
                        [status |-> FAILED, error_message |-> UnsupportedMessage]),
                     {}, TRUE, FALSE, loaded)

\* pre_process_resource, text and markdown: open(file_path, "r", "utf-8").read().
\* open or read raises when the file is gone, is a directory or is no UTF-8.
read_text(rs, f, t, loaded) ==
    IF IsFile(f, t.path) /\ f[t.path] \in Decodable
    THEN {Outcome(update_resource(rs, t.id,
                     [content |-> f[t.path], status |-> PRE_PROCESSED]),
                  {}, TRUE, FALSE, loaded)}
    ELSE {Outcome(rs, {}, FALSE, TRUE, loaded)}

\* do_process_video, had it gone on to the speech step whatever
\* video_to_audio returned.
do_process_video_unchecked(rs, f, t, loaded) ==
    {Outcome(rs, {[t EXCEPT !.stage = "speech",
                            !.converted_path = AudioArtifact(t.path)]},
             FALSE, FALSE, loaded)}

\* do_process_video: video_to_audio returns False when the video is missing
\* or ffmpeg fails, and True when ffmpeg wrote the audio artifact.
do_process_video(rs, f, t, loaded) ==
    {Outcome(update_resource(rs, t.id, [status |-> FAILED]), {}, TRUE, FALSE, loaded)}
    \cup
    (IF IsFile(f, t.path)
     THEN {Outcome(rs, {[t EXCEPT !.stage = "speech",
                                  !.converted_path = AudioArtifact(t.path)]},
                   FALSE, FALSE, loaded)}
     ELSE {})

\* What the commit of do_process_audio writes: for a video the converted_path
\* assigned by do_process_video is dirty too.
AudioCommit(t, kw) ==
    IF t.converted_path # None THEN kw @@ [converted_path |-> t.converted_path] ELSE kw

\* do_process_audio.  The audio_processor property loads the speech model at
\* its first use and raises when the load fails; audio_to_text returns None
\* for a missing file and for any error of the engine, else the transcript.
do_process_audio(rs, f, t, loaded) ==
    LET ap == audio_path(t.resource_type, t.path, t.converted_path)
        failed == Outcome(update_resource(rs, t.id, AudioCommit(t, [status |-> FAILED])),
                          {}, TRUE, FALSE, TRUE)
        source_ok == IF t.resource_type = "video" THEN TRUE ELSE IsFile(f, t.path)
    IN  IF ap = None \/ ap = ""
        THEN {Outcome(update_resource(rs, t.id, AudioCommit(t, [status |-> FAILED])),
                      {}, TRUE, FALSE, loaded)}
        ELSE (IF loaded THEN {} ELSE {Outcome(rs, {}, FALSE, TRUE, FALSE)})
             \cup {failed}
             \cup (IF source_ok
                   THEN {Outcome(update_resource(rs, t.id,
                                    AudioCommit(t, [content |-> text,
                                                    status |-> PRE_PROCESSED])),
                                 {}, TRUE, FALSE, TRUE) : text \in Transcripts}
                   ELSE {})

\* The step a running task takes next.
task_step(rs, f, t, loaded) ==
    CASE t.stage = "read"      -> read_text(rs, f, t, loaded)
      [] t.stage = "transcode" -> do_process_video(rs, f, t, loaded)
      [] OTHER                 -> do_process_audio(rs, f, t, loaded)

(***************************************************************************)
(* The two scheduler queries.                                              *)
(***************************************************************************)
MediaTypes == {"audio", "video"}

\* The heavy loop's query, had it no filter on the kind.
media_query_any_kind(rs) ==
    {i \in Ids(rs) : rs[i].status = PENDING}

\* filter(status == PENDING).filter(resource_type.in_([AUDIO, VIDEO]))
media_query(rs) ==
    {i \in Ids(rs) : rs[i].status = PENDING /\ rs[i].resource_type \in MediaTypes}

\* The light loop's query, had it excluded the video rows only.
other_query_not_video(rs) ==
    {i \in Ids(rs) : rs[i].status = PENDING /\ rs[i].resource_type # "video"}

\* filter(status == PENDING).filter(~resource_type.in_([AUDIO, VIDEO]))
other_query(rs) ==
    {i \in Ids(rs) : rs[i].status = PENDING /\ ~(rs[i].resource_type \in MediaTypes)}

Min(a, b) == IF a < b THEN a ELSE b

\* .all() with no limit: every matching row.
Limited_all(S, n) == {S}

\* .limit(n).all() without ORDER BY: any n of the matching rows (all, if fewer)
Limited(S, n) == {T \in SUBSET S : Cardinality(T) = Min(Cardinality(S), n)}

(***************************************************************************)
(* Initial state: the process starts with the watch root in one of the     *)
(* states FS (AnyFiles(P): any regular files at the paths P), an empty     *)
(* registry, and FileWatcher.__init__ about to scan; the environment will  *)
(* make at most n changes to the files.                                    *)
(***************************************************************************)
AnyFiles(P) ==
    {f \in [Paths -> Contents \cup {Absent}] : \A p \in Paths \ P : f[p] = Absent}

\* The start of the process over the registry rs that earlier runs left in
\* the database file.
InitWith(FS, n, rs) ==
    /\ fs \in FS
    /\ fsLeft = n
    /\ events = <<>>
    /\ phase = "scan"
    /\ scanTodo = {p \in Paths : IsFile(fs, p)}
    /\ rows = rs
    /\ hBatch = {}
    /\ hRun = {}
    /\ whisper = FALSE
    /\ lBatch = {}
    /\ lRun = {}
    /\ hLoop = "off"
    /\ lLoop = "off"
    /\ stop = FALSE
    /\ closed = FALSE
    /\ main = "start"
    /\ probe = <<>>

InitOf(FS, n) == InitWith(FS, n, <<>>)

Event(kind, p) == [kind |-> kind, path |-> p]

\* The events the observer queues once it runs (watcher.start()).
Notify(es) == IF phase = "live" THEN events \o es ELSE events

(***************************************************************************)
(* The environment: programs that write, delete and replace the files.     *)
(***************************************************************************)
\* A program writes bytes c to p (creating it if needed).
WriteFile(p, c) ==
    /\ fsLeft > 0
    /\ fs[p] # Dir
    /\ Len(Notify(<<Event("created", p), Event("modified", p)>>)) <= MaxEvents + 1
    /\ fs' = [fs EXCEPT ![p] = c]
    /\ fsLeft' = fsLeft - 1
    /\ events' = Notify(IF fs[p] = Absent
                        THEN <<Event("created", p), Event("modified", p)>>
                        ELSE <<Event("modified", p)>>)
    /\ UNCHANGED <<phase, scanTodo, rows, heavyVars, lightVars, mainVars>>

DeleteFile(p) ==
    /\ fsLeft > 0
    /\ IsFile(fs, p)
    /\ Len(events) < MaxEvents
    /\ fs' = [fs EXCEPT ![p] = Absent]
    /\ fsLeft' = fsLeft - 1
    /\ events' = Notify(<<Event("deleted", p)>>)
    /\ UNCHANGED <<phase, scanTodo, rows, heavyVars, lightVars, mainVars>>

\* A directory is made where a file was: its events are directory events,
\* which every handler ignores.
MakeDir(p) ==
    /\ fsLeft > 0
    /\ fs[p] = Absent
    /\ fs' = [fs EXCEPT ![p] = Dir]
    /\ fsLeft' = fsLeft - 1
    /\ UNCHANGED <<watchVars, rows, heavyVars, lightVars, mainVars>>

\* A client of the registry registers the file at p: Database.add_resource
\* called as its signature asks, as db.py's own main block does.
RegisterFile(p) ==
    /\ IsFile(fs, p)
    /\ \E rs \in add_resource(rows, BaseName(p), get_resource_type(get_file_type(p)),
                              p, get_file_md5(fs, p)) :
          /\ Len(rs) <= MaxRows
          /\ rows' = rs
    /\ UNCHANGED <<fsVars, watchVars, heavyVars, lightVars, mainVars>>

(***************************************************************************)
(* The watcher.                                                            *)
(***************************************************************************)
\* The result of FileUtils.is_write_completed(p) for some samples p can show.
StableResults(p) ==
    {is_write_completed(Exists(fs, p), s0, s1, s2, IsFile(fs, p), IsFile(fs, p)) :
        s0 \in SampleSizes(fs, p),
        s1 \in SampleSizes(fs, p),
        s2 \in SampleSizes(fs, p)}

\* The scan of one file, had it called _process_file whatever the check said.
ScanFile_ungated(p, stable) ==
    /\ phase = "scan"
    /\ p \in scanTodo
    /\ stable \in StableResults(p)
    /\ scanTodo' = scanTodo \ {p}
    /\ rows' \in process_file(rows, fs, p)
    /\ UNCHANGED <<fsVars, events, phase, heavyVars, lightVars, mainVars>>

\* FileWatcher._scan_directory, one file of os.walk; `stable` is what
\* is_write_completed returned for it.
ScanFile(p, stable) ==
    /\ phase = "scan"
    /\ p \in scanTodo
    /\ stable \in StableResults(p)
    /\ scanTodo' = scanTodo \ {p}
    /\ IF stable THEN rows' \in process_file(rows, fs, p) ELSE rows' = rows
    /\ UNCHANGED <<fsVars, events, phase, heavyVars, lightVars, mainVars>>

\* The scan is over: run() installs the signal handler, starts the two loop
\* threads and the observer, and enters its sleep loop.
StartWatching ==
    /\ main = "start"
    /\ phase = "scan"
    /\ scanTodo = {}
    /\ phase' = "live"
    /\ hLoop' = "wait"
    /\ lLoop' = "wait"
    /\ main' = "serve"
    /\ UNCHANGED <<fsVars, events, scanTodo, rows, hBatch, hRun, whisper,
                   lBatch, lRun, stop, closed, probe>>

\* watcher.start() raises (the observer cannot start): the loops run already,
\* the except clause logs, and run() goes on to its finally clause.
StartFails ==
    /\ main = "start"
    /\ phase = "scan"
    /\ scanTodo = {}
    /\ phase' = "failed"
    /\ hLoop' = "wait"
    /\ lLoop' = "wait"
    /\ main' = "finally"
    /\ UNCHANGED <<fsVars, events, scanTodo, rows, hBatch, hRun, whisper,
                   lBatch, lRun, stop, closed, probe>>

\* FileChangeHandler.on_created: logs, nothing else.
OnCreated ==
    /\ phase = "live"
    /\ events # <<>>
    /\ Head(events).kind = "created"
    /\ events' = Tail(events)
    /\ UNCHANGED <<fsVars, phase, scanTodo, rows, heavyVars, lightVars, mainVars>>

\* FileChangeHandler.on_modified for the file p
OnModified(p, stable) ==
    /\ phase = "live"
    /\ events # <<>>
    /\ Head(events) = Event("modified", p)
    /\ stable \in StableResults(p)
    /\ events' = Tail(events)
    /\ IF stable THEN rows' \in process_file(rows, fs, p) ELSE rows' = rows
    /\ UNCHANGED <<fsVars, phase, scanTodo, heavyVars, lightVars, mainVars>>

\* FileChangeHandler.on_deleted for the file p
OnDeleted(p) ==
    /\ phase = "live"
    /\ events # <<>>
    /\ Head(events) = Event("deleted", p)
    /\ events' = Tail(events)
    /\ rows' = on_deleted(rows, p)
    /\ UNCHANGED <<fsVars, phase, scanTodo, heavyVars, lightVars, mainVars>>

(***************************************************************************)
(* The heavy loop: process_media_resources.                                *)
(***************************************************************************)
\* Where a loop is when its batch and its running tasks are as given: in its
\* for loop / waiting for its futures, or at the end of the cycle.
LoopAfter(batch, run) == IF batch = {} /\ run = {} THEN "wait" ELSE "run"

\* The head of a cycle of the heavy loop, had it not tested stop_event.
HeavyPoll_untested ==
    /\ hLoop = "wait"
    /\ hLoop' = "query"
    /\ UNCHANGED <<fsVars, watchVars, rows, hBatch, hRun, whisper, lightVars, mainVars>>

\* while not stop_event.is_set(): the test at the head of a cycle.
HeavyPoll ==
    /\ hLoop = "wait"
    /\ hLoop' = IF stop THEN "done" ELSE "query"
    /\ UNCHANGED <<fsVars, watchVars, rows, hBatch, hRun, whisper, lightVars, mainVars>>

\* The query of the Pending audio and video rows.
HeavyFetch ==
    /\ hLoop = "query"
    /\ \E S \in Limited(media_query(rows), BatchLimit) :
          /\ hBatch' = {Entry(rows, i) : i \in S}
          /\ hLoop' = LoopAfter(hBatch', {})
    /\ UNCHANGED <<fsVars, watchVars, rows, hRun, whisper, lightVars, mainVars>>

\* for resource in resources: stop_event is set, the loop breaks.
HeavyBreak ==
    /\ hLoop = "run"
    /\ hRun = {}
    /\ stop
    /\ hBatch' = {}
    /\ hLoop' = "wait"
    /\ UNCHANGED <<fsVars, watchVars, rows, hRun, whisper, lightVars, mainVars>>

\* The loop takes the next row of the batch and calls pre_process_resource.
HeavyStart ==
    /\ hLoop = "run"
    /\ hRun = {}
    /\ ~stop
    /\ \E e \in hBatch :
          LET o == pre_process_resource(rows, fs, e, whisper) IN
          /\ rows' = o.rows
          /\ hRun' = o.tasks
          /\ hBatch' = IF o.commit THEN Expire(hBatch \ {e}) ELSE hBatch \ {e}
    /\ hLoop' = LoopAfter(hBatch', hRun')
    /\ UNCHANGED <<fsVars, watchVars, whisper, lightVars, mainVars>>

\* The row being processed takes its next step.  An exception leaves
\* pre_process_resource and the for loop: the rest of the batch is dropped.
HeavyStep ==
    /\ hLoop = "run"
    /\ \E t \in hRun : \E o \in task_step(rows, fs, t, whisper) :
        /\ rows' = o.rows
        /\ hRun' = o.tasks
        /\ whisper' = o.whisper
        /\ hBatch' = IF o.raised THEN {}
                     ELSE IF o.commit THEN Expire(hBatch) ELSE hBatch
    /\ hLoop' = LoopAfter(hBatch', hRun')
    /\ UNCHANGED <<fsVars, watchVars, lightVars, mainVars>>

(***************************************************************************)
(* The light loop: process_other_resources.                                *)
(***************************************************************************)
\* while not stop_event.is_set(): the test at the head of a cycle; when it
\* fails the pool is shut down and the thread ends.
LightPoll ==
    /\ lLoop = "wait"
    /\ lLoop' = IF stop THEN "done" ELSE "query"
    /\ UNCHANGED <<fsVars, watchVars, rows, heavyVars, lBatch, lRun, mainVars>>

\* The query of the other Pending rows; each is submitted to the pool, unless
\* stop_event is set, which breaks the submitting loop.
LightFetch ==
    /\ lLoop = "query"
    /\ \E S \in Limited(other_query(rows), BatchLimit) :
          /\ lBatch' = IF stop THEN {} ELSE {Entry(rows, i) : i \in S}
          /\ lLoop' = LoopAfter(lBatch', {})
    /\ UNCHANGED <<fsVars, watchVars, rows, heavyVars, lRun, mainVars>>

\* The start of a submitted task, had the pool no limit on its workers.
LightStart_unpooled ==
    /\ lLoop = "run"
    /\ \E e \in lBatch :
          LET o == pre_process_resource(rows, fs, e, whisper) IN
          /\ rows' = o.rows
          /\ lRun' = lRun \cup o.tasks
          /\ lBatch' = IF o.commit THEN Expire(lBatch \ {e}) ELSE lBatch \ {e}
    /\ lLoop' = LoopAfter(lBatch', lRun')
    /\ UNCHANGED <<fsVars, watchVars, heavyVars, mainVars>>

\* A free pool worker starts a submitted task.
LightStart ==
    /\ lLoop = "run"
    /\ Cardinality(lRun) < MaxWorkers
    /\ \E e \in lBatch :
          LET o == pre_process_resource(rows, fs, e, whisper) IN
          /\ rows' = o.rows
          /\ lRun' = lRun \cup o.tasks
          /\ lBatch' = IF o.commit THEN Expire(lBatch \ {e}) ELSE lBatch \ {e}
    /\ lLoop' = LoopAfter(lBatch', lRun')
    /\ UNCHANGED <<fsVars, watchVars, heavyVars, mainVars>>

\* A running task takes its next step.  An exception ends the task and stays
\* in its future: concurrent.futures.wait does not raise it.
LightStep ==
    /\ lLoop = "run"
    /\ \E t \in lRun : \E o \in task_step(rows, fs, t, whisper) :
        /\ rows' = o.rows
        /\ lRun' = (lRun \ {t}) \cup o.tasks
        /\ whisper' = o.whisper
        /\ lBatch' = IF o.commit THEN Expire(lBatch) ELSE lBatch
    /\ lLoop' = LoopAfter(lBatch', lRun')
    /\ UNCHANGED <<fsVars, watchVars, hBatch, hRun, hLoop, mainVars>>

(***************************************************************************)
(* Shutdown: the signal handler of run() and its finally clause.           *)
(***************************************************************************)
\* SIGINT or SIGTERM arrives while run() sleeps in its loop; signal_handler
\* calls watcher.stop().
Signal ==
    /\ main = "serve"
    /\ phase' = "stopped"
    /\ main' = "handler"
    /\ UNCHANGED <<fsVars, events, scanTodo, rows, heavyVars, lightVars, stop, closed, probe>>

\* signal_handler: self.db.close(), then sys.exit(0), whose SystemExit leaves
\* the sleep loop through the finally clause.
HandlerClose ==
    /\ main = "handler"
    /\ closed' = TRUE
    /\ main' = "finally"
    /\ UNCHANGED <<fsVars, watchVars, rows, heavyVars, lightVars, stop, probe>>

\* finally: stop_event.set()
SetStop ==
    /\ main = "finally"
    /\ stop' = TRUE
    /\ main' = "join_media"
    /\ UNCHANGED <<fsVars, watchVars, rows, heavyVars, lightVars, closed, probe>>

\* media_thread.join() returns
JoinMedia ==
    /\ main = "join_media"
    /\ hLoop = "done"
    /\ main' = "join_other"
    /\ UNCHANGED <<fsVars, watchVars, rows, heavyVars, lightVars, stop, closed, probe>>

\* other_thread.join() returns
JoinOther ==
    /\ main = "join_other"
    /\ lLoop = "done"
    /\ main' = "stop_watcher"
    /\ UNCHANGED <<fsVars, watchVars, rows, heavyVars, lightVars, stop, closed, probe>>

\* finally: watcher.stop().  observer.join() of an observer whose start failed
\* may raise; the exception ends run() before the registry is closed.
StopWatcher ==
    /\ main = "stop_watcher"
    /\ \/ phase' = "stopped" /\ main' = "close"
       \/ events = <<>> /\ phase = "failed" /\ phase' = phase /\ main' = "exited"
    /\ UNCHANGED <<fsVars, events, scanTodo, rows, heavyVars, lightVars, stop, closed, probe>>

\* finally: self.db.close(); run() returns.
CloseRegistry ==
    /\ main = "close"
    /\ closed' = TRUE
    /\ main' = "exited"
    /\ UNCHANGED <<fsVars, watchVars, rows, heavyVars, lightVars, stop, probe>>

Shutdown ==
    \/ StartFails
    \/ Signal
    \/ HeavyBreak
    \/ HandlerClose
    \/ SetStop
    \/ JoinMedia
    \/ JoinOther
    \/ StopWatcher
    \/ CloseRegistry

\* The steps of the environment on the files P.
Environment(P) ==
    \/ \E p \in P, c \in Contents : WriteFile(p, c)
    \/ \E p \in P : DeleteFile(p)
    \/ \E p \in P : MakeDir(p)
    \/ \E p \in P : RegisterFile(p)

Watcher ==
    \/ \E p \in Paths, stable \in BOOLEAN : ScanFile(p, stable)
    \/ StartWatching
    \/ OnCreated
    \/ \E p \in Paths, stable \in BOOLEAN : OnModified(p, stable)
    \/ \E p \in Paths : OnDeleted(p)

Scheduler ==
    \/ HeavyPoll
    \/ HeavyFetch
    \/ HeavyStart
    \/ HeavyStep
    \/ LightPoll
    \/ LightFetch
    \/ LightStart
    \/ LightStep

(***************************************************************************)
(* The whole system on a text file and a video file.                       *)
(***************************************************************************)
MainPaths == {"w/a.txt", "w/c.mp4"}

Init == InitOf(AnyFiles(MainPaths), MainFsOps)

Next == Environment(MainPaths) \/ Watcher \/ Scheduler

Spec == Init /\ [][Next]_vars

(***************************************************************************)
(* The watcher alone, on two text files: the loops find nothing to do or   *)
(* are not scheduled.                                                      *)
(***************************************************************************)
TextPaths == {"w/a.txt", "w/b.txt"}

WatcherInit == InitOf(AnyFiles(TextPaths), MaxFsOps)

WatcherNext == Environment(TextPaths) \/ Watcher

WatcherSpec == WatcherInit /\ [][WatcherNext]_vars

\* A watcher step in which is_write_completed(p) returned true, so that
\* _process_file(p) was called: one file of the scan, or a modify event.
WatcherProcesses(p) == ScanFile(p, TRUE) \/ OnModified(p, TRUE)

NoValue(v) == v = None \/ v = ""

(***************************************************************************)
(* C1.  When the watcher (scan or event) processes a stable file whose     *)
(* hash is in no row and whose path is held by no row, exactly one row is  *)
(* inserted: status Pending, with that hash, the file's name and path and  *)
(* the kind of its extension; the other rows stay as they are.             *)
(***************************************************************************)
C1_NewFileInserted ==
    [][\A p \in Paths :
          (/\ WatcherProcesses(p)
           /\ IsFile(fs, p)
           /\ ByMd5(rows, get_file_md5(fs, p)) = {}
           /\ ByPath(rows, p) = {})
          => (/\ Len(rows') = Len(rows) + 1
              /\ \A i \in Ids(rows) : rows'[i] = rows[i]
              /\ LET r == rows'[Len(rows')] IN
                 /\ r.status = PENDING
                 /\ r.md5 = get_file_md5(fs, p)
                 /\ r.name = BaseName(p)
                 /\ r.path = p
                 /\ r.resource_type = get_resource_type(get_file_type(p)))]_vars

(***************************************************************************)
(* C2.  No two rows of the registry carry the same content hash (md5).     *)
(***************************************************************************)
C2_UniqueMd5 ==
    \A i \in Ids(rows) : \A j \in Ids(rows) : rows[i].md5 = rows[j].md5 => i = j

(***************************************************************************)
(* C3.  When the watcher processes a stable file whose hash is the hash of *)
(* an existing row, that row's status, content, converted_path and         *)
(* error_message are left as they were.                                    *)
(***************************************************************************)
C3_RediscoveryKeepsProgress ==
    [][\A p \in Paths :
          (WatcherProcesses(p) /\ IsFile(fs, p))
          => \A i \in ByMd5(rows, get_file_md5(fs, p)) :
                /\ rows'[i].status = rows[i].status
                /\ rows'[i].content = rows[i].content
                /\ rows'[i].converted_path = rows[i].converted_path
                /\ rows'[i].error_message = rows[i].error_message]_vars

(***************************************************************************)
(* C4.  Identity reset: when the watcher processes the path of a row that  *)
(* is PRE_PROCESSED and the file now hashes differently from the row, the  *)
(* row becomes Pending and its content, converted_path and error_message   *)
(* are cleared.                                                            *)
(***************************************************************************)
C4_IdentityReset ==
    [][\A p \in Paths :
          (WatcherProcesses(p) /\ IsFile(fs, p))
          => \A i \in ByPath(rows, p) :
                (rows[i].status = PRE_PROCESSED /\ rows[i].md5 # get_file_md5(fs, p))
                => /\ rows'[i].status = PENDING
                   /\ NoValue(rows'[i].content)
                   /\ NoValue(rows'[i].converted_path)
                   /\ NoValue(rows'[i].error_message)]_vars

\* The rows whose processing is under way in one of the two loops.
RunningIds == {t.id : t \in hRun \cup lRun}

(***************************************************************************)
(* C5.  A row whose processing attempt ends (its task leaves the loop that *)
(* dispatched it) is not Pending when the attempt has ended, so the loop   *)
(* does not fetch it again in a later poll.                                *)
(***************************************************************************)
C5_AttemptLeavesPending ==
    [][\A i \in RunningIds :
          (i \notin {t.id : t \in hRun' \cup lRun'})
          => rows'[i].status # PENDING]_vars

\* The entries a loop took from its batch in this step.
StartedEntries ==
    {e \in hBatch \cup lBatch : e.id \notin {x.id : x \in hBatch' \cup lBatch'}}

(***************************************************************************)
(* C7.  Tombstoning: when the delete event of path p is handled, every row *)
(* whose path is p has status Deleted afterwards.                          *)
(***************************************************************************)
C7_DeleteTombstones ==
    [][\A p \in Paths :
          OnDeleted(p) => \A i \in ByPath(rows, p) : rows'[i].status = DELETED]_vars

\* A step in which the speech step of the video task t returned (the model
\* was loaded and audio_to_text gave its result), after the transcode step.
VideoChainEnded(t) ==
    /\ t \in hRun
    /\ t.resource_type = "video"
    /\ t.stage = "speech"
    /\ HeavyStep
    /\ hRun' = {}
    /\ whisper'

(***************************************************************************)
(* C8.  Pipeline chain: when the transcode step and the speech step of a   *)
(* video row have both run to completion, the row is PRE_PROCESSED with a  *)
(* non-empty content, or Failed.                                           *)
(***************************************************************************)
C8_VideoChainOutcome ==
    [][\A t \in hRun :
          VideoChainEnded(t)
          => \/ rows'[t.id].status = PRE_PROCESSED /\ ~NoValue(rows'[t.id].content)
             \/ rows'[t.id].status = FAILED]_vars

(***************************************************************************)
(* C9.  When a loop starts the processing of a row whose source path is    *)
(* missing or is no regular file, the row becomes Failed with a non-empty  *)
(* error_message.                                                          *)
(***************************************************************************)
C9_MissingSourceFails ==
    [][(HeavyStart \/ LightStart)
          => \A e \in StartedEntries :
                ~IsFile(fs, EntryPath(rows, e))
                => /\ rows'[e.id].status = FAILED
                   /\ ~NoValue(rows'[e.id].error_message)]_vars

(***************************************************************************)
(* The two loops over a registry that a client fills while they run, on    *)
(* files of every kind: at most MaxRows of the files exist, and nothing    *)
(* changes them.                                                           *)
(***************************************************************************)
KindPaths == Paths \ {"w/b.txt"}

\* A client registers the file at p once the service runs.
ClientRegisters(p) == phase = "live" /\ RegisterFile(p)

FilesAt(S) == [p \in Paths |-> IF p \in S THEN "hello" ELSE Absent]

KindsInit ==
    \E S \in SUBSET KindPaths :
        /\ Cardinality(S) <= MaxRows
        /\ InitOf({FilesAt(S)}, 0)

Startup ==
    \/ \E p \in Paths, stable \in BOOLEAN : ScanFile(p, stable)
    \/ StartWatching

KindsNext ==
    \/ \E p \in KindPaths : ClientRegisters(p)
    \/ Startup
    \/ Scheduler

KindsSpec == KindsInit /\ [][KindsNext]_vars

\* The registry of one Pending row of kind k.
OneRow(k) == <<NewResource("n", k, "w/a.txt", "m")>>

(***************************************************************************)
(* C6.  Disjoint claiming: in every state of the registry no row is        *)
(* matched by both scheduler queries, every Pending row is matched by      *)
(* exactly one of them, a batch the heavy loop can fetch and a batch the   *)
(* light loop can fetch share no row, the rows the heavy loop fetched were *)
(* loaded as audio or video and the rows the light loop fetched as another *)
(* kind, and a Pending row of any kind is matched by exactly one query.    *)
(***************************************************************************)
C6_DisjointClaiming ==
    /\ media_query(rows) \cap other_query(rows) = {}
    /\ \A i \in Ids(rows) :
          rows[i].status = PENDING
          => (i \in media_query(rows)) # (i \in other_query(rows))
    /\ \A S \in Limited(media_query(rows), BatchLimit) :
          \A T \in Limited(other_query(rows), BatchLimit) : S \cap T = {}
    /\ \A e \in hBatch : e.resource_type \in MediaTypes \cup {Expired}
    /\ \A e \in lBatch : e.resource_type \notin MediaTypes
    /\ \A k \in ResourceTypes :
          (1 \in media_query(OneRow(k))) # (1 \in other_query(OneRow(k)))

\* Both loops hold a fetched batch at once, the heavy one an audio row, while
\* a video row and a row of another kind are Pending.
C6_BothLoopsFetched ==
    /\ \E e \in hBatch : e.resource_type = "audio"
    /\ lBatch # {}
    /\ media_query(rows) # {}
    /\ other_query(rows) # {}

(***************************************************************************)
(* The loops under fair scheduling, with no cancellation: a registry       *)
(* filled by a client on a text file and a video file that do not change.  *)
(***************************************************************************)
LiveInit == InitOf(AnyFiles(MainPaths), 0)

LiveNext ==
    \/ \E p \in MainPaths : RegisterFile(p)
    \/ Startup
    \/ Scheduler

Fairness ==
    /\ WF_vars(Startup)
    /\ WF_vars(HeavyPoll) /\ WF_vars(LightPoll)
    /\ WF_vars(HeavyFetch) /\ WF_vars(HeavyStart) /\ WF_vars(HeavyStep)
    /\ WF_vars(LightFetch) /\ WF_vars(LightStart) /\ WF_vars(LightStep)

LiveSpec == LiveInit /\ [][LiveNext]_vars /\ Fairness

(***************************************************************************)
(* C10.  No resource is dropped: under fair scheduling of both loops,      *)
(* every row that is Pending eventually has a status other than Pending.   *)
(***************************************************************************)
C10_PendingEventuallyLeaves ==
    \A i \in 1..MaxRows :
        (i \in Ids(rows) /\ rows[i].status = PENDING)
        ~> (i \in Ids(rows) /\ rows[i].status # PENDING)

(***************************************************************************)
(* The service from its start to its end: a text file and a video file     *)
(* that programs write and delete, a client that registers them while the  *)
(* service runs, the watcher, the two loops, and the shutdown of run().    *)
(***************************************************************************)
ShutdownInit == InitOf(AnyFiles(MainPaths), MainFsOps)

ShutdownNext ==
    \/ \E p \in MainPaths, c \in Contents : WriteFile(p, c)
    \/ \E p \in MainPaths : DeleteFile(p)
    \/ \E p \in MainPaths : ClientRegisters(p)
    \/ Watcher
    \/ Scheduler
    \/ Shutdown

ShutdownSpec == ShutdownInit /\ [][ShutdownNext]_vars

\* A step of a scheduler loop or of the watcher that changes the registry.
ServiceWrites == (Scheduler \/ Watcher) /\ rows' # rows

(***************************************************************************)
(* C11.  The registry is closed only when the heavy loop and the light     *)
(* loop have ended and the watcher no longer runs, and once it is closed   *)
(* no step of a loop or of the watcher changes the registry.               *)
(***************************************************************************)
C11_CloseAfterLoops ==
    [][/\ (closed' /\ ~closed)
             => (hLoop = "done" /\ lLoop = "done" /\ phase # "live")
       /\ closed => ~ServiceWrites]_vars

(***************************************************************************)
(* Cancellation under fair scheduling of the loop threads: the files do    *)
(* not change, a client registers them while the service runs.             *)
(***************************************************************************)
StopInit == InitOf(AnyFiles(MainPaths), 0)

StopNext ==
    \/ \E p \in MainPaths : ClientRegisters(p)
    \/ Startup
    \/ Scheduler
    \/ Shutdown

\* Each loop thread goes on running, and each step of a processing ends.
StopFairness ==
    /\ WF_vars(HeavyPoll) /\ WF_vars(HeavyFetch) /\ WF_vars(HeavyBreak)
    /\ WF_vars(HeavyStart) /\ WF_vars(HeavyStep)
    /\ WF_vars(LightPoll) /\ WF_vars(LightFetch)
    /\ WF_vars(LightStart) /\ WF_vars(LightStep)

StopSpec == StopInit /\ [][StopNext]_vars /\ StopFairness

SamplesTaken(s0, s1, s2, r1) ==
    IF s0 = s1 /\ r1 THEN <<s0, s1>> ELSE <<s0, s1, s2>>

\* The size differs between two samples / between the last two samples.
SizeChanges(smp)   == \E i \in 1..(Len(smp) - 1) : smp[i] # smp[i + 1]
StillChanging(smp) == smp[Len(smp) - 1] # smp[Len(smp)]

\* A watcher step on p in which the check sampled s0, s1, s2 and the watcher
\* went by its result.
WatcherChecks(p, s0, s1, s2) ==
    LET result == is_write_completed(Exists(fs, p), s0, s1, s2,
                                     IsFile(fs, p), IsFile(fs, p))
    IN  ScanFile(p, result) \/ OnModified(p, result)

(***************************************************************************)
(* C13, as stated.  A watcher step on a file whose size differs between    *)
(* two of the samples of the write-completion check leaves the registry    *)
(* unchanged.                                                              *)
(***************************************************************************)
C13_ChangingNeverRegistered ==
    [][\A p \in Paths : \A s0, s1, s2 \in SampleSizes(fs, p) :
          (WatcherChecks(p, s0, s1, s2)
           /\ SizeChanges(SamplesTaken(s0, s1, s2, IsFile(fs, p))))
          => rows' = rows]_vars

(***************************************************************************)
(* C13, amended.  Stability gate: a watcher step (scan or modify event)    *)
(* for which the write-completion check returned false leaves the registry *)
(* unchanged, and so does a step on a file whose size differs between the  *)
(* last two samples of the check.                                          *)
(***************************************************************************)
C13_StabilityGate ==
    [][\A p \in Paths :
          /\ (ScanFile(p, FALSE) \/ OnModified(p, FALSE)) => rows' = rows
          /\ \A s0, s1, s2 \in SampleSizes(fs, p) :
                (WatcherChecks(p, s0, s1, s2)
                 /\ StillChanging(SamplesTaken(s0, s1, s2, IsFile(fs, p))))
                => rows' = rows]_vars

\* The watcher has processed a stable file: a row registered under one file's
\* name now holds the path of another file with the same bytes.
C13_StableFileProcessed ==
    \E i \in Ids(rows) :
        /\ rows[i].name # BaseName(rows[i].path)
        /\ IsFile(fs, rows[i].path)
        /\ rows[i].md5 = get_file_md5(fs, rows[i].path)

(***************************************************************************)
(* is_write_completed on its own: calls with any sizes up to MaxSize, any  *)
(* outcome of the two reads, and stat() raising or not during the check    *)
(* (the except clause of the function then returns False).                 *)
(***************************************************************************)
ProbeSizes == 0..MaxSize

is_write_completed_call(exists, s0, s1, s2, r1, r2, raised) ==
    IF raised THEN FALSE ELSE is_write_completed(exists, s0, s1, s2, r1, r2)

Probe(exists, s0, s1, s2, r1, r2, raised) ==
    /\ probe' = <<[exists |-> exists, s0 |-> s0, s1 |-> s1, s2 |-> s2,
                   r1 |-> r1, r2 |-> r2, raised |-> raised,
                   result |-> is_write_completed_call(exists, s0, s1, s2,
                                                      r1, r2, raised)]>>
    /\ UNCHANGED <<fsVars, watchVars, rows, heavyVars, lightVars, stop, closed, main>>

ProbeInit == InitOf({FilesAt({})}, 0)

ProbeNext ==
    \E exists \in BOOLEAN, s0 \in ProbeSizes, s1 \in ProbeSizes, s2 \in ProbeSizes,
       r1 \in BOOLEAN, r2 \in BOOLEAN, raised \in BOOLEAN :
        Probe(exists, s0, s1, s2, r1, r2, raised)

ProbeSpec == ProbeInit /\ [][ProbeNext]_vars

\* The samples of the probed call.
ProbeSamples == SamplesTaken(probe[1].s0, probe[1].s1, probe[1].s2, probe[1].r1)

(***************************************************************************)
(* C14, as stated.  is_write_completed returns true only if the size is    *)
(* the same in all of its samples and the file could be read; it returns   *)
(* false if the size differs between two samples, if the file does not     *)
(* exist, or on an exception.                                              *)
(***************************************************************************)
C14_AllSamplesEqual ==
    probe # <<>>
    => /\ probe[1].result => (/\ ~SizeChanges(ProbeSamples)
                           /\ (probe[1].r1 \/ probe[1].r2))
       /\ (SizeChanges(ProbeSamples) \/ ~probe[1].exists \/ probe[1].raised)
             => ~probe[1].result

(***************************************************************************)
(* C14, amended.  is_write_completed returns true exactly if the file      *)
(* exists, nothing raised, and some sample has the size of the sample      *)
(* before it and the file could be opened and read in that round; so it    *)
(* returns false if every sample differs from the one before it, if the    *)
(* file does not exist, or on an exception.                                *)
(***************************************************************************)
C14_TwoSamplesEqual ==
    probe # <<>>
    => /\ probe[1].result <=> (/\ probe[1].exists
                            /\ ~probe[1].raised
                            /\ \/ probe[1].s0 = probe[1].s1 /\ probe[1].r1
                               \/ probe[1].s1 = probe[1].s2 /\ probe[1].r2)
       /\ (\A i \in 1..(Len(ProbeSamples) - 1) : ProbeSamples[i] # ProbeSamples[i + 1])
             => ~probe[1].result
       /\ (~probe[1].exists \/ probe[1].raised) => ~probe[1].result

\* A call that returned true although the size changed after the initial
\* sample: the first and the second round found the same size.
C14_TrueAfterChange ==
    /\ probe # <<>>
    /\ probe[1].result
    /\ probe[1].s0 # probe[1].s1
    /\ probe[1].s1 = probe[1].s2

\* A watcher step that processed the stable file p while exactly one row held
\* the hash of p, at another path: the content was found where it was not.
FoundElsewhere(p, i) ==
    /\ WatcherProcesses(p)
    /\ IsFile(fs, p)
    /\ ByMd5(rows, get_file_md5(fs, p)) = {i}
    /\ rows[i].path # p

(***************************************************************************)
(* C15.  After the watcher found the content of exactly one row at another *)
(* path p, that row's path is p and its name is the file name of p.        *)
(***************************************************************************)
C15_MovedRowRenamed ==
    [][\A p \in Paths : \A i \in Ids(rows) :
          FoundElsewhere(p, i)
          => /\ rows'[i].path = p
             /\ rows'[i].name = BaseName(p)]_vars

\* The kind of the extension of path p.
KindOf(p) == get_resource_type(get_file_type(p))

(***************************************************************************)
(* C16.  When the watcher finds the content of a row at a path whose       *)
(* extension maps to another kind than the row's, the row takes the new    *)
(* kind, becomes Pending and has its converted_path, content and           *)
(* error_message cleared; and in every state the kind of a row is the kind *)
(* of the extension of its path.                                           *)
(***************************************************************************)
C16_KindFollowsPath ==
    /\ [][\A p \in Paths : \A i \in Ids(rows) :
             (FoundElsewhere(p, i) /\ rows[i].resource_type # KindOf(p))
             => /\ rows'[i].resource_type = KindOf(p)
                /\ rows'[i].status = PENDING
                /\ NoValue(rows'[i].converted_path)
                /\ NoValue(rows'[i].content)
                /\ NoValue(rows'[i].error_message)]_vars
    /\ [](\A i \in Ids(rows) : rows[i].resource_type = KindOf(rows[i].path))

TerminalStatuses == {COMPLETED, PRE_PROCESSED, FAILED, DELETED}

(***************************************************************************)
(* C17.  Handling the delete event of path p changes no field of a row at  *)
(* path p whose status is terminal (Completed, PRE_PROCESSED, Failed or    *)
(* Deleted), and any row it moves to Deleted was not terminal before.      *)
(***************************************************************************)
C17_DeleteSparesTerminal ==
    [][\A p \in Paths :
          OnDeleted(p)
          => /\ \A i \in ByPath(rows, p) :
                   rows[i].status \in TerminalStatuses => rows'[i] = rows[i]
             /\ \A i \in Ids(rows) :
                   (rows'[i].status = DELETED /\ rows[i].status # DELETED)
                   => rows[i].status \notin TerminalStatuses]_vars

(***************************************************************************)
(* C18.  In every state a row whose error_message is not empty has status  *)
(* Failed.                                                                 *)
(***************************************************************************)
C18_ReasonOnlyWhenFailed ==
    \A i \in Ids(rows) : ~NoValue(rows[i].error_message) => rows[i].status = FAILED

(***************************************************************************)
(* C19.  A create event of a file p is handled as a modify event is: for   *)
(* every result the write-completion check can give for p, the handler can *)
(* leave the registry that on_modified leaves for that result (the file    *)
(* processed when the result is true, the registry as it was when false).  *)
(***************************************************************************)
C19_CreateLikeModify ==
    \A p \in Paths :
        (phase = "live" /\ events # <<>> /\ Head(events) = Event("created", p)
            /\ IsFile(fs, p))
        => \A stable \in StableResults(p) :
              ENABLED (/\ OnCreated
                       /\ IF stable THEN rows' \in process_file(rows, fs, p)
                                    ELSE rows' = rows)

(***************************************************************************)
(* The heavy loop on its own, over a registry that earlier runs left with  *)
(* up to MaxPending Pending video rows: one whose video is in the watch    *)
(* root, the others moved by the watcher to a path that is gone by now.    *)
(***************************************************************************)
PendingVideos(n) ==
    [i \in 1..n |->
        NewResource("c.mp4", "video", IF i = 1 THEN "w/c.mp4" ELSE "w/d.mp3",
                    Md5Hex("\\xff"))]

BatchInit ==
    \E n \in 0..MaxPending : InitWith({FilesAt({"w/c.mp4"})}, 0, PendingVideos(n))

BatchNext ==
    \/ Startup
    \/ HeavyPoll
    \/ HeavyFetch
    \/ HeavyStart
    \/ HeavyStep

BatchSpec == BatchInit /\ [][BatchNext]_vars

(***************************************************************************)
(* C20.  In every state the heavy loop is processing at most one row, and  *)
(* that row was loaded as audio or video; and every fetch of the heavy     *)
(* loop takes at most 10 rows, each of them Pending and of kind audio or   *)
(* video when it is fetched.                                               *)
(***************************************************************************)
C20_OneAtATimeTenPerPoll ==
    /\ [](/\ Cardinality(hRun) <= 1
          /\ \A t \in hRun : t.resource_type \in MediaTypes)
    /\ [][HeavyFetch
          => /\ Cardinality(hBatch') <= BatchLimit
             /\ \A e \in hBatch' :
                   /\ rows[e.id].status = PENDING
                   /\ rows[e.id].resource_type \in MediaTypes]_vars

\* More than 10 media rows are Pending, the loop fetched 10 of them and is
\* processing the first while the other 9 wait in the batch.
C20_FullBatchRunning ==
    /\ Cardinality(media_query(rows)) > BatchLimit
    /\ Cardinality(hRun) = 1
    /\ Cardinality(hBatch) = BatchLimit - 1

(***************************************************************************)
(* The light loop on its own, over a registry that earlier runs left with  *)
(* up to MaxPending Pending text rows: the first MaxWorkers + 1 at a text  *)
(* file of the watch root, the others at a path that is gone by now.       *)
(***************************************************************************)
PendingTexts(n) ==
    [i \in 1..n |->
        NewResource("a.txt", "text",
                    IF i <= MaxWorkers + 1 THEN "w/a.txt" ELSE "w/b.txt",
                    Md5Hex("\\xff"))]

PoolInit ==
    \E n \in 0..MaxPending : InitWith({FilesAt({"w/a.txt"})}, 0, PendingTexts(n))

PoolNext ==
    \/ Startup
    \/ LightPoll
    \/ LightFetch
    \/ LightStart
    \/ LightStep

PoolSpec == PoolInit /\ [][PoolNext]_vars

\* The rows of the light loop that are in flight: submitted and not started,
\* or running on a worker.
InFlight == {e.id : e \in lBatch} \cup {t.id : t \in lRun}

(***************************************************************************)
(* C21.  In every state at most 10 rows of the light loop are in flight    *)
(* and at most 4 tasks are running on pool workers; and the light loop     *)
(* tests its loop condition and issues its query only when no task of the  *)
(* batch before is submitted or running.                                   *)
(***************************************************************************)
C21_BoundedBatchAndPool ==
    /\ [](/\ Cardinality(InFlight) <= BatchLimit
          /\ Cardinality(lBatch) + Cardinality(lRun) <= BatchLimit
          /\ Cardinality(lRun) <= MaxWorkers)
    /\ [][(LightPoll \/ LightFetch) => (lBatch = {} /\ lRun = {})]_vars

\* More than 10 rows are Pending for the light loop, 10 were fetched, 4 of
\* them run on the workers and the other 6 wait for a free worker.
C21_PoolSaturated ==
    /\ Cardinality(other_query(rows)) > BatchLimit
    /\ Cardinality(lRun) = MaxWorkers
    /\ Cardinality(lBatch) = BatchLimit - MaxWorkers

(***************************************************************************)
(* The watcher and the light loop on two text files.                       *)
(***************************************************************************)
LightLoop ==
    \/ LightPoll
    \/ LightFetch
    \/ LightStart
    \/ LightStep

TextInit == InitOf(AnyFiles(TextPaths), MainFsOps)

TextNext == Environment(TextPaths) \/ Watcher \/ LightLoop

TextSpec == TextInit /\ [][TextNext]_vars

\* A step in which the task t of the light loop, reading its text file,
\* ended (read() returned or raised).
ReadEnded(t) ==
    /\ t \in lRun
    /\ t.stage = "read"
    /\ LightStep
    /\ t \notin lRun'

\* The service has nothing left to do: the scan is over, no event waits,
\* and the light loop is between two cycles with no Pending row to fetch.
Settled ==
    /\ phase = "live"
    /\ events = <<>>
    /\ lLoop = "wait"
    /\ lBatch = {}
    /\ lRun = {}
    /\ other_query(rows) = {}

\* The watch root held a.txt and b.txt, both "hello", when the service
\* started, and no program has touched a file since.
TwoHellos ==
    /\ fs["w/a.txt"] = "hello"
    /\ fs["w/b.txt"] = "hello"
    /\ fsLeft = MainFsOps

(***************************************************************************)
(* C22.  When the processing of a dispatched text or markdown row whose    *)
(* file exists ends, the row's content is the content of the file at its   *)
(* path and its status is PRE_PROCESSED; and once the service has settled  *)
(* on a watch root that held two text files of the same bytes "hello",     *)
(* the registry is one row, PRE_PROCESSED, with content "hello".           *)
(***************************************************************************)
C22_TextRead ==
    /\ [][\A t \in lRun :
             (ReadEnded(t) /\ IsFile(fs, rows[t.id].path))
             => /\ rows'[t.id].content = fs[rows[t.id].path]
                /\ rows'[t.id].status = PRE_PROCESSED]_vars
    /\ []((TwoHellos /\ Settled)
          => /\ Len(rows) = 1
             /\ rows[1].status = PRE_PROCESSED
             /\ rows[1].content = "hello")

\* A step in which a pool worker took the entry e from the batch and ran
\* pre_process_resource on it.
LightStarted(e) ==
    /\ e \in lBatch
    /\ LightStart
    /\ e.id \notin {x.id : x \in lBatch'}

(***************************************************************************)
(* C23.  When the watcher processes a stable file of an unsupported        *)
(* extension that no row describes, a row of kind unknown is inserted for  *)
(* it; and when a row loaded as kind unknown is processed, it becomes      *)
(* Failed with a non-empty error_message.                                  *)
(***************************************************************************)
C23_UnknownKindFails ==
    /\ [][\A p \in Paths :
             (/\ WatcherProcesses(p)
              /\ IsFile(fs, p)
              /\ KindOf(p) = "unknown"
              /\ ByMd5(rows, get_file_md5(fs, p)) = {}
              /\ ByPath(rows, p) = {})
             => /\ Len(rows') = Len(rows) + 1
                /\ rows'[Len(rows')].path = p
                /\ rows'[Len(rows')].resource_type = "unknown"]_vars
    /\ [][\A e \in lBatch :
             (LightStarted(e) /\ EntryType(rows, e) = "unknown")
             => /\ rows'[e.id].status = FAILED
                /\ ~NoValue(rows'[e.id].error_message)]_vars

\* A step in which the read of the text task t raised: open() or read()
\* found the file gone, a directory, or bytes that are no UTF-8.
ReadRaised(t) ==
    /\ ReadEnded(t)
    /\ ~(IsFile(fs, t.path) /\ fs[t.path] \in Decodable)

\* A step in which the speech step of the heavy task t raised: the speech
\* model was not loaded and its load failed.
SpeechRaised(t) ==
    /\ t \in hRun
    /\ t.stage = "speech"
    /\ HeavyStep
    /\ ~whisper
    /\ ~whisper'

(***************************************************************************)
(* C24.  When the processing of a dispatched row raises (the read of a     *)
(* text file, or the speech step of an audio or video row), the row is     *)
(* Failed with a non-empty error_message afterwards, so that no later      *)
(* query fetches it.                                                       *)
(***************************************************************************)
C24_ContentErrorRecorded ==
    /\ [][\A t \in lRun :
             ReadRaised(t)
             => /\ rows'[t.id].status = FAILED
                /\ ~NoValue(rows'[t.id].error_message)]_vars
    /\ [][\A t \in hRun :
             SpeechRaised(t)
             => /\ rows'[t.id].status = FAILED
                /\ ~NoValue(rows'[t.id].error_message)]_vars

\* A step in which the task t of the heavy loop, or of a pool worker, took
\* its transcode step (do_process_video).
HeavyTranscode(t) ==
    /\ t \in hRun
    /\ t.stage = "transcode"
    /\ HeavyStep

LightTranscode(t) ==
    /\ t \in lRun
    /\ t.stage = "transcode"
    /\ LightStep
    /\ t \notin lRun'

\* The speech task that follows the transcode step of t.
SpeechAfter(t) ==
    [t EXCEPT !.stage = "speech", !.converted_path = AudioArtifact(t.path)]

\* What the claim asks of a transcode step of t in a loop whose tasks after
\* the step are run2.
TranscodeOutcome(t, run2) ==
    \/ /\ rows'[t.id].status = FAILED
       /\ SpeechAfter(t) \notin run2
    \/ /\ IsFile(fs, t.path)
       /\ SpeechAfter(t) \in run2
       /\ rows' = rows

\* The speech tasks of video rows among the tasks run.
VideoSpeech(run) == {u \in run : u.resource_type = "video" /\ u.stage = "speech"}

(***************************************************************************)
(* C25.  The transcode step of a video row either fails, and then the row  *)
(* is Failed and no speech step is started for it, or succeeds on a video  *)
(* that exists, and then the speech step is started with converted_path    *)
(* set to the audio artifact.  A speech step of a video row is started by  *)
(* a transcode step only, and it reads the audio at converted_path (the    *)
(* artifact), never the row's path; what the speech step commits carries   *)
(* that converted_path.                                                    *)
(***************************************************************************)
C25_SpeechFollowsTranscode ==
    /\ [][/\ \A t \in hRun : HeavyTranscode(t) => TranscodeOutcome(t, hRun')
          /\ \A t \in lRun : LightTranscode(t) => TranscodeOutcome(t, lRun')]_vars
    /\ [][/\ \A u \in VideoSpeech(hRun') \ hRun :
                \E t \in hRun : HeavyTranscode(t) /\ u = SpeechAfter(t)
          /\ \A u \in VideoSpeech(lRun') \ lRun :
                \E t \in lRun : LightTranscode(t) /\ u = SpeechAfter(t)]_vars
    /\ [](\A u \in VideoSpeech(hRun \cup lRun) :
             /\ audio_path(u.resource_type, u.path, u.converted_path)
                   = AudioArtifact(u.path)
             /\ AudioArtifact(u.path) # u.path)
    /\ [][\A t \in hRun : VideoChainEnded(t)
             => rows'[t.id].converted_path = AudioArtifact(t.path)]_vars

\* The speech step of a video row is about to run on the audio artifact
\* that the transcode step produced.
C25_SpeechOnArtifact ==
    \E u \in hRun :
        /\ u.resource_type = "video"
        /\ u.stage = "speech"
        /\ u.converted_path = AudioArtifact(u.path)
        /\ rows[u.id].converted_path = None

\* A step in which the task t of the heavy loop ended with a commit: its
\* transcode step failed, its speech step returned, or its read returned.
HeavyCommitted(t) ==
    /\ t \in hRun
    /\ HeavyStep
    /\ hRun' = {}
    /\ t.stage = "speech" => whisper'
    /\ t.stage = "read" => (IsFile(fs, t.path) /\ fs[t.path] \in Decodable)

(***************************************************************************)
(* C26.  The delete event of the path of a row that a loop is processing   *)
(* is applied at once (the row becomes Deleted while its task goes on),    *)
(* and when the task of a row that became Deleted ends with a commit, the  *)
(* commit writes its status over the tombstone: the row is PRE_PROCESSED   *)
(* or Failed afterwards.                                                   *)
(***************************************************************************)
C26_TombstoneRace ==
    /\ [][\A p \in Paths : \A t \in hRun \cup lRun :
             (OnDeleted(p) /\ ByPath(rows, p) = {t.id})
             => /\ rows'[t.id].status = DELETED
                /\ t \in hRun' \cup lRun']_vars
    /\ [][\A t \in hRun :
             (HeavyCommitted(t) /\ rows[t.id].status = DELETED)
             => rows'[t.id].status \in {PRE_PROCESSED, FAILED}]_vars

\* The file of a row is deleted and its delete event was handled (the row
\* carries the tombstone's message), yet the row is PRE_PROCESSED or Failed:
\* the task that was processing it committed after the tombstone.
C26_TombstoneOverwritten ==
    \E i \in Ids(rows) :
        /\ ~Exists(fs, rows[i].path)
        /\ events = <<>>
        /\ rows[i].error_message = DeletedMessage
        /\ rows[i].status \in {PRE_PROCESSED, FAILED}
        /\ rows[i].resource_type = "video"

(***************************************************************************)
(* The service on its own: the watcher, the two loops and the programs     *)
(* that change the files, over the registry a client left before the       *)
(* service started, with one row for each file of the watch root.  No      *)
(* client calls the registry while the service runs.                       *)
(***************************************************************************)
\* The registry after add_resource was called for each file of the paths P.
RegisteredFiles(f, P) ==
    IF \A p \in P : ~IsFile(f, p) THEN <<>>
    ELSE LET Row(p) == NewResource(BaseName(p), KindOf(p), p, get_file_md5(f, p))
             first == CHOOSE p \in P : IsFile(f, p)
             rest  == {p \in P \ {first} : IsFile(f, p)}
         IN  IF rest = {} THEN <<Row(first)>>
             ELSE <<Row(first), Row(CHOOSE p \in rest : TRUE)>>

ServiceInit ==
    \E f \in AnyFiles(MainPaths) :
        InitWith({f}, MainFsOps, RegisteredFiles(f, MainPaths))

ServiceNext ==
    \/ \E p \in MainPaths, c \in Contents : WriteFile(p, c)
    \/ \E p \in MainPaths : DeleteFile(p)
    \/ \E p \in MainPaths : MakeDir(p)
    \/ Watcher
    \/ Scheduler

ServiceSpec == ServiceInit /\ [][ServiceNext]_vars

(***************************************************************************)
(* C27.  In every state no row is being processed by two executor          *)
(* invocations: the tasks running in the heavy loop and on the pool        *)
(* workers are tasks of different rows, although every row they process    *)
(* may still be Pending.                                                   *)
(***************************************************************************)
C27_OneExecutorPerRow ==
    /\ \A t \in hRun : \A u \in lRun : t.id # u.id
    /\ \A t \in lRun : \A u \in lRun : t.id = u.id => t = u
    /\ \A t \in hRun : \A u \in hRun : t.id = u.id => t = u

\* The heavy loop and a pool worker are processing at once, each a row that
\* is still Pending.
C27_BothLoopsProcessing ==
    /\ \E t \in hRun : rows[t.id].status = PENDING
    /\ \E u \in lRun : rows[u.id].status = PENDING

(***************************************************************************)
(* C28.  In every state at most one row holds a given path; and when the   *)
(* delete event of path p is handled, the one row at p is the row that     *)
(* becomes Deleted.                                                        *)
(***************************************************************************)
C28_UniquePath ==
    /\ [](\A i \in Ids(rows) : \A j \in Ids(rows) :
             rows[i].path = rows[j].path => i = j)
    /\ [][\A p \in Paths :
             OnDeleted(p)
             => /\ Cardinality(ByPath(rows, p)) <= 1
                /\ \A i \in ByPath(rows, p) : rows'[i].status = DELETED]_vars
====
